---- MODULE Spec2Model ----
(***************************************************************************)
(* podget (cmd/podget/podget.go): the feed-processing goroutine, the       *)
(* download goroutine, the buffered channel dlqueue between them, the      *)
(* sync.WaitGroup main waits on, and the destination filesystem both       *)
(* goroutines touch.  The overwrite decision of processItem is also        *)
(* exercised on its own, as a pure function, under SpecPolicy.             *)
(***************************************************************************)
EXTENDS Integers, Sequences, FiniteSets, TLC

(***************************************************************************)
(* Bounds of the model.                                                    *)
(***************************************************************************)
\* most feed URLs on the command line (flag.Args())
MaxFeeds == 2
\* <item> elements of every feed document
ItemsPerFeed == 9
\* largest -r value drawn
MaxDays == 2
\* clock ticks per second: the resolution of file ages (the code's is 1 ns)
TicksPerSecond == 4
\* most symbols of a -podtrac pattern
MaxPattern == 2
\* most characters of an item's title
MaxText == 2
\* most colon-separated components of a duration text
MaxChunks == 5

(***************************************************************************)
(* Program constants.                                                      *)
(***************************************************************************)
\* const queueSize = 15
queueSize == 15
\* time.Second, time.Hour, and the "* 24" of processItem, in clock ticks
Second == TicksPerSecond
Hour == 3600 * Second
HoursPerDay == 24

VARIABLES
    args,       \* flag.Args(): the feed URLs, in order
    maxdays,    \* *maxdays, the -r flag
    fs,         \* the destination filesystem: path -> what os.Stat finds
    fs0,        \* fs as it was when the process started
    dlqueue,    \* the jobs buffered in the channel, oldest first
    closed,     \* close(dlqueue) has been called
    wgcount,    \* the WaitGroup counter
    mpc,        \* main: "start", "spawn", "wait", "exited", "panic", "deadlock",
                \* "crash" (a goroutine hit a run-time error)
    ppc,        \* feed goroutine: "none", "loop", "feed", "item", "send", "defer", "done"
    wpc,        \* download goroutine: "none", "recv", "download", "sleep", "defer", "done"
    fidx,       \* feeds the range loop of main has begun
    iidx,       \* items of the current channel processItem has been called on
    ndefers,    \* deferred wg.Done() calls the feed goroutine has registered
    stat,       \* processItem's last os.Stat result (err, and the file's age)
    overwrite,  \* processItem's local overwrite
    pend,       \* the Download the feed goroutine is sending, <<>> when none
    cur,        \* the Download the download goroutine holds, <<>> when none
    nsent,      \* sends on dlqueue that have completed
    nrecv,      \* receives from dlqueue that have completed
    nfinished,  \* calls of download that have returned
    nsleeps,    \* time.Sleep calls that have returned
    created,    \* paths os.Create of download has created or truncated
    waited,     \* sequence number of the last send that found the buffer full
    pol,        \* SpecPolicy: the inputs and the result of one decision
    pod,        \* SpecExtract: the -podtrac flag, what podtracCompile made
                \* of it, and one call of depodtracify
    dur         \* SpecDuration: one <itunes:duration> text and its decoding

vars == <<args, maxdays, fs, fs0, dlqueue, closed, wgcount, mpc, ppc, wpc, fidx,
          iidx, ndefers, stat, overwrite, pend, cur, nsent, nrecv, nfinished,
          nsleeps, created, waited, pol, pod, dur>>

(***************************************************************************)
(* The feed documents.  Every feed URL serves the same channel: items      *)
(* 1..ItemsPerFeed in document order.  Item k carries the enclosure URL k, *)
(* except the first, whose URL url.Parse rejects; the last path segment of *)
(* URL k is a.mp3 for even k and b.mp3 for odd k, so several items of a    *)
(* channel, and the same item of two feeds, resolve to one destination.    *)
(***************************************************************************)
BadURL == 0

EnclosureURL(k) == IF k = 1 THEN BadURL ELSE k

\* Item.Enclosure is a pointer, nil when the <item> has no <enclosure>; the
\* last item of a channel may be such an item
EnclosureChoices(k) == IF k = ItemsPerFeed THEN {TRUE, FALSE} ELSE {TRUE}

Paths == {"a.mp3", "b.mp3"}

\* u, err := url.Parse(enc.URL)
URLParses(u) == u # BadURL

\* filepath.Join(*destdir, feeddir, filepath.Base(u.Path))
DestFile(u) == IF u % 2 = 0 THEN "a.mp3" ELSE "b.mp3"

\* &Download{URL: enc.URL, File: destfile}; id is the send's sequence number,
\* kept to tell apart two jobs whose fields are identical
Download(u, f, n) == [URL |-> u, File |-> f, id |-> n]

NoJob == <<>>

(***************************************************************************)
(* os.Stat results.  err is "nil" (the file exists, age is its age in      *)
(* clock ticks: time.Since(stats.ModTime())), "ENOENT" (does not exist) or *)
(* "EACCES" (any other failure).                                           *)
(***************************************************************************)
Exists(a) == [err |-> "nil", age |-> a]
NotExist == [err |-> "ENOENT", age |-> 0]
StatFails == [err |-> "EACCES", age |-> 0]

\* os.IsNotExist(err); the variant takes every error for "does not exist"
IsNotExist_AnyError(err) == err # "nil"

IsNotExist(err) == err = "ENOENT"

\* time.Duration.Round(m): to the nearest multiple of m, halves away from zero
Round(d, m) ==
    IF d < 0
    THEN LET r == (-d) % m
         IN  IF r + r < m THEN d + r ELSE d - m + r
    ELSE LET r == d % m
         IN  IF r + r < m THEN d - r ELSE d + m - r

\* maxage := time.Duration(*maxdays) * time.Hour * 24
MaxAge(days) == days * Hour * HoursPerDay

\* lines 138-142: overwrite := false; if err == nil && *maxdays > 0 {
\*   age := time.Since(stats.ModTime()).Round(time.Second); overwrite = age > maxage }
\* The variant compares the age as measured, not rounded.
Overwrite_NoRound(st, days) ==
    IF st.err = "nil" /\ days > 0 THEN st.age > MaxAge(days) ELSE FALSE

Overwrite(st, days) ==
    IF st.err = "nil" /\ days > 0
    THEN Round(st.age, Second) > MaxAge(days)
    ELSE FALSE

\* line 149: if os.IsNotExist(err) || overwrite; the variant tests overwrite
\* alone
Enqueues_OverwriteOnly(st, ow) == ow

Enqueues(st, ow) == IsNotExist(st.err) \/ ow

(***************************************************************************)
(* The state after flag.Parse() and podtracCompile(): nothing started, the *)
(* channel empty and open.  The command line (feed URLs, -r) and the       *)
(* files already in the destination directory are the run's inputs.        *)
(***************************************************************************)
\* a file older than every -r value drawn
OldAge == MaxAge(MaxDays + 1)

FileStates == {NotExist, StatFails, Exists(0), Exists(OldAge)}

NoDecision == [st |-> NotExist, days |-> 0, done |-> FALSE,
               overwrite |-> FALSE, enqueue |-> FALSE]

\* pod and dur outside their specifications
NoExtraction == [pc |-> "none"]

NoDuration == [done |-> TRUE]

Init ==
    /\ args \in {[i \in 1..n |-> i] : n \in 0..MaxFeeds}
    /\ maxdays \in {0, MaxDays}
    /\ fs \in [Paths -> FileStates]
    /\ fs0 = fs
    /\ dlqueue = <<>>
    /\ closed = FALSE
    /\ wgcount = 0
    /\ mpc = "start"
    /\ ppc = "none"
    /\ wpc = "none"
    /\ fidx = 0
    /\ iidx = 0
    /\ ndefers = 0
    /\ stat = NotExist
    /\ overwrite = FALSE
    /\ pend = NoJob
    /\ cur = NoJob
    /\ nsent = 0
    /\ nrecv = 0
    /\ nfinished = 0
    /\ nsleeps = 0
    /\ created = {}
    /\ waited = 0
    /\ pol = NoDecision
    /\ pod = NoExtraction
    /\ dur = NoDuration

\* the process is running: main has neither returned nor been killed
Alive == mpc \in {"start", "spawn", "wait"}

(***************************************************************************)
(* main                                                                    *)
(***************************************************************************)
\* wg.Add(1); go func() { defer wg.Done(); downloader() }()
MainGoDownloader ==
    /\ mpc = "start"
    /\ mpc' = "spawn"
    /\ wgcount' = wgcount + 1
    /\ wpc' = "recv"
    /\ UNCHANGED <<args, maxdays, fs, fs0, dlqueue, closed, ppc, fidx, iidx,
                   ndefers, stat, overwrite, pend, cur, nsent, nrecv,
                   nfinished, nsleeps, created, waited, pol, pod, dur>>

\* wg.Add(1); go func() { for ... { defer wg.Done(); ... }; close(dlqueue) }()
MainGoFeeds ==
    /\ mpc = "spawn"
    /\ mpc' = "wait"
    /\ wgcount' = wgcount + 1
    /\ ppc' = "loop"
    /\ UNCHANGED <<args, maxdays, fs, fs0, dlqueue, closed, wpc, fidx, iidx,
                   ndefers, stat, overwrite, pend, cur, nsent, nrecv,
                   nfinished, nsleeps, created, waited, pol, pod, dur>>

\* wg.Wait() returns once the counter is zero; main returns, the process exits
WaitReturns(n) == n = 0

MainWait ==
    /\ mpc = "wait"
    /\ WaitReturns(wgcount)
    /\ mpc' = "exited"
    /\ UNCHANGED <<args, maxdays, fs, fs0, dlqueue, closed, wgcount, ppc, wpc,
                   fidx, iidx, ndefers, stat, overwrite, pend, cur, nsent,
                   nrecv, nfinished, nsleeps, created, waited, pol, pod, dur>>

\* main is parked in wg.Wait() and both goroutines have returned: the Go
\* runtime ends the process, "all goroutines are asleep - deadlock!"
MainDeadlock ==
    /\ mpc = "wait"
    /\ ~WaitReturns(wgcount)
    /\ ppc = "done"
    /\ wpc = "done"
    /\ mpc' = "deadlock"
    /\ UNCHANGED <<args, maxdays, fs, fs0, dlqueue, closed, wgcount, ppc, wpc,
                   fidx, iidx, ndefers, stat, overwrite, pend, cur, nsent,
                   nrecv, nfinished, nsleeps, created, waited, pol, pod, dur>>

(***************************************************************************)
(* The feed goroutine: main's second go func, processFeed, processChannel, *)
(* processItem.                                                            *)
(***************************************************************************)
\* for _, feedurl := range flag.Args() { defer wg.Done(); ...
FeedNext ==
    /\ Alive
    /\ ppc = "loop"
    /\ fidx < Len(args)
    /\ fidx' = fidx + 1
    /\ ndefers' = ndefers + 1
    /\ ppc' = "feed"
    /\ UNCHANGED <<args, maxdays, fs, fs0, dlqueue, closed, wgcount, mpc, wpc,
                   iidx, stat, overwrite, pend, cur, nsent, nrecv, nfinished,
                   nsleeps, created, waited, pol, pod, dur>>

\* processFeed up to the call of processItem: http.Get, ioutil.ReadAll and
\* xml.Unmarshal each succeed or fail; a failure is logged and the feed left.
\* "panic": xml.Unmarshal calls Duration.UnmarshalXML, and parseDuration
\* indexes babylon out of range on a duration of five integer components
FeedOutcomes == {"get", "read", "parse", "panic", "ok"}

\* where processFeed's caller goes on after an outcome other than "panic";
\* the variant leaves the range over the feeds at the first failure
AfterFeed_Break(outcome) == IF outcome = "ok" THEN "item" ELSE "defer"

AfterFeed(outcome) == IF outcome = "ok" THEN "item" ELSE "loop"

ProcessFeed ==
    /\ Alive
    /\ ppc = "feed"
    /\ \E outcome \in FeedOutcomes :
          IF outcome = "panic"
          THEN mpc' = "crash" /\ UNCHANGED <<ppc, iidx>>
          ELSE /\ ppc' = AfterFeed(outcome)
               /\ iidx' = 0
               /\ UNCHANGED mpc
    /\ UNCHANGED <<args, maxdays, fs, fs0, dlqueue, closed, wgcount, wpc,
                   fidx, ndefers, stat, overwrite, pend, cur, nsent, nrecv,
                   nfinished, nsleeps, created, waited, pol, pod, dur>>

\* processItem, to its return or to the send on dlqueue, with *podtrac ""
\* (no extraction instruction).  enc.URL on a nil Enclosure is a nil
\* dereference: the goroutine panics and the process ends
ProcessItem ==
    /\ Alive
    /\ ppc = "item"
    /\ iidx < ItemsPerFeed
    /\ \E enc \in EnclosureChoices(iidx + 1) :
          IF ~enc
          THEN /\ mpc' = "crash"
               /\ UNCHANGED <<iidx, ppc, stat, overwrite, pend, waited>>
          ELSE /\ UNCHANGED mpc
               /\ iidx' = iidx + 1
               /\ LET u == EnclosureURL(iidx + 1)
                      destfile == DestFile(u)
                      st == fs[destfile]
                      ow == Overwrite(st, maxdays)
                  IN  IF ~URLParses(u)
                      THEN UNCHANGED <<ppc, stat, overwrite, pend, waited>>
                      ELSE /\ stat' = st
                           /\ overwrite' = ow
                           /\ IF Enqueues(st, ow)
                              THEN /\ pend' = Download(u, destfile, nsent + 1)
                                   /\ ppc' = "send"
                                   /\ waited' = IF Len(dlqueue) >= queueSize
                                                THEN nsent + 1
                                                ELSE waited
                              ELSE UNCHANGED <<ppc, pend, waited>>
    /\ UNCHANGED <<args, maxdays, fs, fs0, dlqueue, closed, wgcount, wpc,
                   fidx, ndefers, cur, nsent, nrecv, nfinished, nsleeps,
                   created, pol, pod, dur>>

\* dlqueue <- &Download{...}: blocks while the buffer holds queueSize jobs;
\* the variant is a channel that never blocks the sender
CanSend_Unbounded(q) == TRUE

CanSend(q) == Len(q) < queueSize

Send(q, dl) == Append(q, dl)

Enqueue ==
    /\ Alive
    /\ ppc = "send"
    /\ CanSend(dlqueue)
    /\ dlqueue' = Send(dlqueue, pend)
    /\ nsent' = nsent + 1
    /\ pend' = NoJob
    /\ ppc' = "item"
    /\ UNCHANGED <<args, maxdays, fs, fs0, closed, wgcount, mpc, wpc, fidx,
                   iidx, ndefers, stat, overwrite, cur, nrecv, nfinished,
                   nsleeps, created, waited, pol, pod, dur>>

\* the range over channel.Item ends; processChannel and processFeed return
ChannelDone ==
    /\ Alive
    /\ ppc = "item"
    /\ iidx = ItemsPerFeed
    /\ ppc' = "loop"
    /\ UNCHANGED <<args, maxdays, fs, fs0, dlqueue, closed, wgcount, mpc, wpc,
                   fidx, iidx, ndefers, stat, overwrite, pend, cur, nsent,
                   nrecv, nfinished, nsleeps, created, waited, pol, pod, dur>>

\* the range over flag.Args() ends: close(dlqueue).  The variant closes the
\* channel inside the loop, after the first feed
CloseQueue_InLoop ==
    /\ Alive
    /\ ppc = "loop"
    /\ ~closed
    /\ fidx >= 1 \/ fidx = Len(args)
    /\ closed' = TRUE
    /\ ppc' = IF fidx < Len(args) THEN "loop"
              ELSE IF ndefers = 0 THEN "done" ELSE "defer"
    /\ UNCHANGED <<args, maxdays, fs, fs0, dlqueue, wgcount, mpc, wpc, fidx,
                   iidx, ndefers, stat, overwrite, pend, cur, nsent, nrecv,
                   nfinished, nsleeps, created, waited, pol, pod, dur>>

CloseQueue ==
    /\ Alive
    /\ ppc = "loop"
    /\ fidx = Len(args)
    /\ closed' = TRUE
    /\ ppc' = IF ndefers = 0 THEN "done" ELSE "defer"
    /\ UNCHANGED <<args, maxdays, fs, fs0, dlqueue, wgcount, mpc, wpc, fidx,
                   iidx, ndefers, stat, overwrite, pend, cur, nsent, nrecv,
                   nfinished, nsleeps, created, waited, pol, pod, dur>>

\* the goroutine's function returns and its deferred wg.Done() calls run, one
\* per feed; after the last the goroutine is gone.  A Done that takes the
\* counter below zero panics, and the panic ends the process
FeedDeferredDone ==
    /\ Alive
    /\ ppc = "defer"
    /\ ndefers > 0
    /\ ndefers' = ndefers - 1
    /\ ppc' = IF ndefers = 1 THEN "done" ELSE "defer"
    /\ IF wgcount = 0
       THEN mpc' = "panic" /\ UNCHANGED wgcount
       ELSE wgcount' = wgcount - 1 /\ UNCHANGED mpc
    /\ UNCHANGED <<args, maxdays, fs, fs0, dlqueue, closed, wpc, fidx, iidx,
                   stat, overwrite, pend, cur, nsent, nrecv, nfinished,
                   nsleeps, created, waited, pol, pod, dur>>

(***************************************************************************)
(* The download goroutine: main's first go func, downloader, download.     *)
(***************************************************************************)
\* for dl := range dlqueue: the oldest buffered job; the variant takes the
\* newest
Receive_Newest(q) == q[Len(q)]

Receive(q) == Head(q)

Remaining(q, dl) == SelectSeq(q, LAMBDA x : x.id # dl.id)

DownloaderRecv ==
    /\ Alive
    /\ wpc = "recv"
    /\ dlqueue # <<>>
    /\ cur' = Receive(dlqueue)
    /\ dlqueue' = Remaining(dlqueue, cur')
    /\ nrecv' = nrecv + 1
    /\ wpc' = "download"
    /\ UNCHANGED <<args, maxdays, fs, fs0, closed, wgcount, mpc, ppc, fidx,
                   iidx, ndefers, stat, overwrite, pend, nsent, nfinished,
                   nsleeps, created, waited, pol, pod, dur>>

\* download(dl.URL, dl.File): the step that fails, or "ok".  os.Create
\* creates or truncates the file: it exists from then on, whatever follows.
\* A path os.Stat cannot reach cannot be created either.
DownloadOutcomes == {"mkdir", "create", "get", "copy", "ok"}

Creates(outcome) == outcome \in {"get", "copy", "ok"}

\* fout, err := os.Create(tofile): the file exists, empty and new; the
\* variant leaves the destination as it was
AfterCreate_Nothing(f, tofile) == f

AfterCreate(f, tofile) == [f EXCEPT ![tofile] = Exists(0)]

\* time.Sleep(2 * time.Second) follows every return of download; the variant
\* sleeps after a successful download only
AfterDownload_NoSleepOnError(outcome) ==
    IF outcome = "ok" THEN "sleep" ELSE "recv"

\* a second variant calls download again on the job that failed
AfterDownload_Retry(outcome) == IF outcome = "ok" THEN "sleep" ELSE "download"

AfterDownload(outcome) == "sleep"

DownloadJob ==
    /\ Alive
    /\ wpc = "download"
    /\ \E outcome \in DownloadOutcomes :
          /\ fs[cur.File] = StatFails => ~Creates(outcome)
          /\ IF Creates(outcome)
             THEN /\ fs' = AfterCreate(fs, cur.File)
                  /\ created' = created \cup {cur.File}
             ELSE UNCHANGED <<fs, created>>
          /\ wpc' = AfterDownload(outcome)
    /\ cur' = NoJob
    /\ nfinished' = nfinished + 1
    /\ UNCHANGED <<args, maxdays, fs0, dlqueue, closed, wgcount, mpc, ppc,
                   fidx, iidx, ndefers, stat, overwrite, pend, nsent, nrecv,
                   nsleeps, waited, pol, pod, dur>>

Sleep ==
    /\ Alive
    /\ wpc = "sleep"
    /\ nsleeps' = nsleeps + 1
    /\ wpc' = "recv"
    /\ UNCHANGED <<args, maxdays, fs, fs0, dlqueue, closed, wgcount, mpc, ppc,
                   fidx, iidx, ndefers, stat, overwrite, pend, cur, nsent,
                   nrecv, nfinished, created, waited, pol, pod, dur>>

\* the range ends when the channel is closed and empty; downloader returns.
\* The variant ends it as soon as the channel is empty
RangeEnds_OnEmpty(q, c) == q = <<>>

RangeEnds(q, c) == q = <<>> /\ c

DownloaderReturn ==
    /\ Alive
    /\ wpc = "recv"
    /\ RangeEnds(dlqueue, closed)
    /\ wpc' = "defer"
    /\ UNCHANGED <<args, maxdays, fs, fs0, dlqueue, closed, wgcount, mpc, ppc,
                   fidx, iidx, ndefers, stat, overwrite, pend, cur, nsent,
                   nrecv, nfinished, nsleeps, created, waited, pol, pod, dur>>

\* the deferred wg.Done() of the download goroutine
DownloaderDone ==
    /\ Alive
    /\ wpc = "defer"
    /\ wpc' = "done"
    /\ IF wgcount = 0
       THEN mpc' = "panic" /\ UNCHANGED wgcount
       ELSE wgcount' = wgcount - 1 /\ UNCHANGED mpc
    /\ UNCHANGED <<args, maxdays, fs, fs0, dlqueue, closed, ppc, fidx, iidx,
                   ndefers, stat, overwrite, pend, cur, nsent, nrecv,
                   nfinished, nsleeps, created, waited, pol, pod, dur>>

Next ==
    \/ MainGoDownloader
    \/ MainGoFeeds
    \/ MainWait
    \/ MainDeadlock
    \/ FeedNext
    \/ ProcessFeed
    \/ ProcessItem
    \/ Enqueue
    \/ ChannelDone
    \/ CloseQueue
    \/ FeedDeferredDone
    \/ DownloaderRecv
    \/ DownloadJob
    \/ Sleep
    \/ DownloaderReturn
    \/ DownloaderDone

Spec == Init /\ [][Next]_vars

(***************************************************************************)
(* The overwrite decision of processItem (lines 137-153) on its own: one   *)
(* os.Stat result and one -r value in, overwrite and the branch taken out. *)
(* Ages lie within a second of every whole number of days, and before 0    *)
(* (a modification time in the future).                                    *)
(***************************************************************************)
PolicyAges ==
    {MaxAge(d) + e : d \in 0..(MaxDays + 1), e \in (-Second)..Second}

PolicyStats == {NotExist, StatFails} \cup {Exists(a) : a \in PolicyAges}

InitPolicy ==
    /\ args = <<>>
    /\ maxdays = 0
    /\ fs = [p \in Paths |-> NotExist]
    /\ fs0 = fs
    /\ dlqueue = <<>>
    /\ closed = FALSE
    /\ wgcount = 0
    /\ mpc = "start"
    /\ ppc = "none"
    /\ wpc = "none"
    /\ fidx = 0
    /\ iidx = 0
    /\ ndefers = 0
    /\ stat = NotExist
    /\ overwrite = FALSE
    /\ pend = NoJob
    /\ cur = NoJob
    /\ nsent = 0
    /\ nrecv = 0
    /\ nfinished = 0
    /\ nsleeps = 0
    /\ created = {}
    /\ waited = 0
    /\ pol \in {[NoDecision EXCEPT !.st = s, !.days = d] :
                   s \in PolicyStats, d \in 0..MaxDays}
    /\ pod = NoExtraction
    /\ dur = NoDuration

\* lines 137-153 applied to pol.st and pol.days
Decide ==
    /\ ~pol.done
    /\ LET ow == Overwrite(pol.st, pol.days)
       IN  pol' = [pol EXCEPT !.done = TRUE,
                              !.overwrite = ow,
                              !.enqueue = Enqueues(pol.st, ow)]
    /\ UNCHANGED <<args, maxdays, fs, fs0, dlqueue, closed, wgcount, mpc, ppc,
                   wpc, fidx, iidx, ndefers, stat, overwrite, pend, cur,
                   nsent, nrecv, nfinished, nsleeps, created, waited, pod,
                   dur>>

NextPolicy == Decide

SpecPolicy == InitPolicy /\ [][NextPolicy]_vars

(***************************************************************************)
(* The -podtrac extraction rule: podtracCompile on the flag's value, then  *)
(* depodtracify on an item.  A string is a sequence of symbols: a space, a *)
(* slash, the letter "e", the digit "4", a word that stands for a run of   *)
(* other letters (a field name, the extension), and the pattern pieces:    *)
(* a group of one or more digits 4, a group of zero or more digits 4, and  *)
(* a parenthesis that is never closed.  Any other symbol in a pattern is a *)
(* literal.                                                                *)
(***************************************************************************)
\* the keys of depodtracify's data map
FieldNames == {"item.author", "item.category", "item.description",
               "item.duration", "item.guid", "item.pubDate", "item.title",
               "enclosure.url", "url"}

\* the first position of symbol c in s from position i on, 0 when none
RECURSIVE Index(_, _, _)
Index(s, c, i) ==
    IF i > Len(s) THEN 0
    ELSE IF s[i] = c THEN i
    ELSE Index(s, c, i + 1)

\* strings.SplitN(s, " ", 2)
SplitN(s) ==
    LET i == Index(s, " ", 1)
    IN  IF i = 0 THEN <<s>>
        ELSE <<SubSeq(s, 1, i - 1), SubSeq(s, i + 1, Len(s))>>

\* strings.Trim(s, cutset); strings.TrimSpace(s) is Trim(s, {" "})
RECURSIVE Trim(_, _)
Trim(s, cutset) ==
    IF s = <<>> THEN s
    ELSE IF s[1] \in cutset THEN Trim(Tail(s), cutset)
    ELSE IF s[Len(s)] \in cutset THEN Trim(SubSeq(s, 1, Len(s) - 1), cutset)
    ELSE s

TrimSpace(s) == Trim(s, {" "})

\* regexp.Compile(sregex) returns no error
Compiles(sregex) == \A i \in 1..Len(sregex) : sregex[i] # "("

\* the digits of x from position i on
RECURSIVE Digits(_, _)
Digits(x, i) ==
    IF i <= Len(x) /\ x[i] = "4" THEN 1 + Digits(x, i + 1) ELSE 0

\* The ways pattern p matches x from position i on, the preferred first:
\* a group takes the longest run of digits it can and gives back one digit
\* at a time while the rest of the pattern does not match.
RECURSIVE MatchAt(_, _, _), Repeat(_, _, _, _, _)
MatchAt(p, x, i) ==
    IF p = <<>> THEN <<[end |-> i, groups |-> <<>>]>>
    ELSE IF Head(p) = "(4+)" THEN Repeat(Tail(p), x, i, Digits(x, i), 1)
    ELSE IF Head(p) = "(4*)" THEN Repeat(Tail(p), x, i, Digits(x, i), 0)
    ELSE IF i <= Len(x) /\ x[i] = Head(p) THEN MatchAt(Tail(p), x, i + 1)
    ELSE <<>>

Repeat(rest, x, i, k, min) ==
    IF k < min THEN <<>>
    ELSE LET M == MatchAt(rest, x, i + k)
         IN  [j \in 1..Len(M) |->
                 [end |-> M[j].end,
                  groups |-> <<SubSeq(x, i, i + k - 1)>> \o M[j].groups]]
             \o Repeat(rest, x, i, k - 1, min)

\* (*Regexp).FindStringSubmatch(x), searching from position s on: the text
\* of the leftmost match and of its groups, <<>> (nil) when nothing matches
RECURSIVE FindStringSubmatch(_, _, _)
FindStringSubmatch(re, x, s) ==
    IF s > Len(x) + 1 THEN <<>>
    ELSE LET M == MatchAt(re, x, s)
         IN  IF M # <<>>
             THEN <<SubSeq(x, s, M[1].end - 1)>> \o M[1].groups
             ELSE FindStringSubmatch(re, x, s + 1)

\* podtracCompile on the -podtrac value: "none" without the flag, "panic"
\* when chunks[1] does not exist, "error" when regexp.Compile fails
PodtracCompiled(instruction) ==
    IF instruction = <<>>
    THEN [kind |-> "none", podtracField |-> <<>>, podtracRE |-> <<>>]
    ELSE LET chunks == SplitN(instruction)
             field == TrimSpace(chunks[1])
         IN  IF Len(chunks) < 2
             THEN [kind |-> "panic", podtracField |-> field, podtracRE |-> <<>>]
             ELSE LET sregex == Trim(chunks[2], {" ", "/"})
                  IN  [kind |-> IF Compiles(sregex) THEN "ok" ELSE "error",
                       podtracField |-> field,
                       podtracRE |-> sregex]

\* an item without a <guid> element: item.Guid is nil
NoGuid == "nil"

\* filepath.Ext(u.Path) of the items' enclosure URL
Ext == <<".mp3">>

\* the enclosure URL of the items
ItemURL == <<"http://host/default", ".mp3">>

\* depodtracify's data map, built from an item that has a guid
Data(item) ==
    [f \in FieldNames |->
        CASE f = "item.title" -> item.title
          [] f = "item.guid" -> item.guid
          [] f = "item.duration" -> <<"0s">>
          [] f = "item.pubDate" -> <<"0001-01-01">>
          [] f \in {"enclosure.url", "url"} -> ItemURL
          [] OTHER -> <<>>]

\* data[podtracField]: a key the map does not hold gives ""
Lookup(data, field) ==
    IF Len(field) = 1 /\ field[1] \in DOMAIN data THEN data[field[1]] ELSE <<>>

\* depodtracify(item, enc, u, ext) with the compiled rule c: the file name,
\* an error, or a run-time panic (item.Guid.Text on a nil Guid; ep[1] on a
\* match that has no group)
Depodtracified(item, c) ==
    IF item.guid = NoGuid
    THEN [kind |-> "panic", destfile |-> <<>>]
    ELSE LET x == Lookup(Data(item), c.podtracField)
             ep == FindStringSubmatch(c.podtracRE, x, 1)
         IN  IF Len(ep) < 1 THEN [kind |-> "error", destfile |-> <<>>]
             ELSE IF Len(ep) < 2 THEN [kind |-> "panic", destfile |-> <<>>]
             ELSE IF ep[2] = <<>> THEN [kind |-> "error", destfile |-> <<>>]
             ELSE [kind |-> "ok", destfile |-> ep[2] \o Ext]

\* the sequences over S of length at most n
SeqsUpTo(S, n) == UNION {[1..k -> S] : k \in 0..n}

PatternSymbols == {"e", "(4+)", "(4*)", "("}

TextSymbols == {"e", "4"}

\* the -podtrac values drawn: a field (one of the nine, an unknown one, or
\* none), zero to two spaces, a pattern, bare or between slashes
Instructions ==
    {f \o sp \o w \o p \o w :
        f \in {<<>>, <<"item.episode">>} \cup {<<n>> : n \in FieldNames},
        sp \in {<<>>, <<" ">>, <<" ", " ">>},
        w \in {<<>>, <<"/">>},
        p \in SeqsUpTo(PatternSymbols, MaxPattern)}

\* the items drawn: a title, and a guid or none
Items ==
    [title : SeqsUpTo(TextSymbols, MaxText), guid : {NoGuid, <<"4">>}]

PipelineAtRest ==
    /\ args = <<>>
    /\ maxdays = 0
    /\ fs = [p \in Paths |-> NotExist]
    /\ fs0 = fs
    /\ dlqueue = <<>>
    /\ closed = FALSE
    /\ wgcount = 0
    /\ mpc = "start"
    /\ ppc = "none"
    /\ wpc = "none"
    /\ fidx = 0
    /\ iidx = 0
    /\ ndefers = 0
    /\ stat = NotExist
    /\ overwrite = FALSE
    /\ pend = NoJob
    /\ cur = NoJob
    /\ nsent = 0
    /\ nrecv = 0
    /\ nfinished = 0
    /\ nsleeps = 0
    /\ created = {}
    /\ waited = 0
    /\ pol = NoDecision

InitExtract ==
    /\ PipelineAtRest
    /\ dur = NoDuration
    /\ pod \in {[pc |-> "start", instruction |-> i] : i \in Instructions}

\* main, lines 225-232: podtracCompile(); an error ends the process with
\* os.Exit(1) before any goroutine is started, a panic ends it as well
PodtracCompile ==
    /\ pod.pc = "start"
    /\ LET c == PodtracCompiled(pod.instruction)
       IN  pod' = [pc |-> CASE c.kind = "error" -> "exit"
                            [] c.kind = "panic" -> "panic"
                            [] OTHER -> "compiled",
                   instruction |-> pod.instruction,
                   rule |-> c]
    /\ UNCHANGED <<args, maxdays, fs, fs0, dlqueue, closed, wgcount, mpc, ppc,
                   wpc, fidx, iidx, ndefers, stat, overwrite, pend, cur,
                   nsent, nrecv, nfinished, nsleeps, created, waited, pol,
                   dur>>

\* processItem, lines 126-133, on an item with an enclosure: with the flag
\* set the file name comes from depodtracify, whose error skips the episode
Depodtracify ==
    /\ pod.pc = "compiled"
    /\ pod.instruction # <<>>
    /\ \E item \in Items :
          LET r == Depodtracified(item, pod.rule)
          IN  pod' = [pc |-> IF r.kind = "panic" THEN "panic" ELSE "item",
                      instruction |-> pod.instruction,
                      rule |-> pod.rule,
                      item |-> item,
                      result |-> r,
                      skipped |-> r.kind = "error"]
    /\ UNCHANGED <<args, maxdays, fs, fs0, dlqueue, closed, wgcount, mpc, ppc,
                   wpc, fidx, iidx, ndefers, stat, overwrite, pend, cur,
                   nsent, nrecv, nfinished, nsleeps, created, waited, pol,
                   dur>>

NextExtract ==
    \/ PodtracCompile
    \/ Depodtracify

SpecExtract == InitExtract /\ [][NextExtract]_vars

(***************************************************************************)
(* Duration.UnmarshalXML and parseDuration (podcast.go): the text of an    *)
(* <itunes:duration> element, a sequence of characters, is split at the    *)
(* colons and each component converted with strconv.Atoi.                  *)
(***************************************************************************)
babylon == <<1, 60, 3600, 86400>>

DecimalDigits == <<"0", "1", "2", "3", "4", "5", "6", "7", "8", "9">>

\* the value of decimal digit c
DigitValue(c) == (CHOOSE k \in 1..Len(DecimalDigits) : DecimalDigits[k] = c) - 1

IsDigit(c) == \E k \in 1..Len(DecimalDigits) : DecimalDigits[k] = c

\* the value of a run of decimal digits, acc being that of the digits before
RECURSIVE DecimalValue(_, _)
DecimalValue(c, acc) ==
    IF c = <<>> THEN acc
    ELSE DecimalValue(Tail(c), 10 * acc + DigitValue(Head(c)))

\* strconv.Atoi(c): an optional sign, then one or more decimal digits
Atoi(c) ==
    LET signed == c # <<>> /\ c[1] \in {"+", "-"}
        digits == IF signed THEN Tail(c) ELSE c
    IN  IF digits = <<>> \/ \E k \in 1..Len(digits) : ~IsDigit(digits[k])
        THEN [err |-> TRUE, s |-> 0]
        ELSE [err |-> FALSE,
              s |-> IF signed /\ c[1] = "-"
                    THEN 0 - DecimalValue(digits, 0)
                    ELSE DecimalValue(digits, 0)]

\* strings.Split(ds, ":")
RECURSIVE Split(_)
Split(ds) ==
    LET i == Index(ds, ":", 1)
    IN  IF i = 0 THEN <<ds>>
        ELSE <<SubSeq(ds, 1, i - 1)>> \o Split(SubSeq(ds, i + 1, Len(ds)))

\* the variant takes the components from the front
ChunkIndex_Forward(lc, i) == i + 1

\* j := lc - i - 1, as an index that counts from 1
ChunkIndex(lc, i) == lc - i

\* the loop of parseDuration from pass i on, secs being the sum so far:
\* "ok" with the sum in seconds, "error" at a component Atoi rejects, "panic"
\* at babylon[i] beyond the end of babylon
RECURSIVE DurationLoop(_, _, _)
DurationLoop(chunks, i, secs) ==
    IF i >= Len(chunks) THEN [kind |-> "ok", secs |-> secs]
    ELSE LET a == Atoi(chunks[ChunkIndex(Len(chunks), i)])
         IN  IF a.err THEN [kind |-> "error", secs |-> 0]
             ELSE IF i >= Len(babylon) THEN [kind |-> "panic", secs |-> 0]
             ELSE DurationLoop(chunks, i + 1, secs + a.s * babylon[i + 1])

parseDuration(ds) == DurationLoop(Split(ds), 0, 0)

\* the components drawn, each with what it is: integers written with and
\* without a leading zero or a sign, a word, and the empty string
Components ==
    {[text |-> <<"1">>, int |-> TRUE, val |-> 1],
     [text |-> <<"0", "2">>, int |-> TRUE, val |-> 2],
     [text |-> <<"0", "3">>, int |-> TRUE, val |-> 3],
     [text |-> <<"-", "1">>, int |-> TRUE, val |-> 0 - 1],
     [text |-> <<"x">>, int |-> FALSE, val |-> 0],
     [text |-> <<>>, int |-> FALSE, val |-> 0]}

\* the components' texts with a colon between each two
RECURSIVE Join(_)
Join(parts) ==
    IF Len(parts) = 1 THEN parts[1].text
    ELSE parts[1].text \o <<":">> \o Join(Tail(parts))

InitDuration ==
    /\ PipelineAtRest
    /\ pod = NoExtraction
    /\ dur \in {[done |-> FALSE, parts |-> p, ds |-> Join(p)] :
                   p \in UNION {[1..n -> Components] : n \in 1..MaxChunks}}

\* Duration.UnmarshalXML on the element's text, and what becomes of the feed
\* in processChannel: decoded, rejected with the error xml.Unmarshal
\* returns, or the process ended by the panic
UnmarshalXML ==
    /\ ~dur.done
    /\ LET d == parseDuration(dur.ds)
       IN  dur' = [done |-> TRUE, parts |-> dur.parts, ds |-> dur.ds,
                   d |-> d,
                   feed |-> CASE d.kind = "ok" -> "ok"
                              [] d.kind = "error" -> "parse"
                              [] OTHER -> "panic"]
    /\ UNCHANGED <<args, maxdays, fs, fs0, dlqueue, closed, wgcount, mpc, ppc,
                   wpc, fidx, iidx, ndefers, stat, overwrite, pend, cur,
                   nsent, nrecv, nfinished, nsleeps, created, waited, pol,
                   pod>>

NextDuration == UnmarshalXML

SpecDuration == InitDuration /\ [][NextDuration]_vars

(***************************************************************************)
(* The claims.                                                             *)
(***************************************************************************)
\* processItem has just been called on item iidx' and reached os.Stat
StatStep ==
    /\ ppc = "item"
    /\ iidx' = iidx + 1
    /\ URLParses(EnclosureURL(iidx'))

\* the file that item resolves to
StatFile == DestFile(EnclosureURL(iidx'))

\* C1: wg.Wait() in main returns, and the process exits, only after the feed
\* goroutine and the download goroutine have both ended, the channel closed
\* and drained.
C1_ExitAfterBothTasks ==
    mpc = "exited" =>
        /\ ppc = "done"
        /\ wpc = "done"
        /\ closed
        /\ dlqueue = <<>>

\* C2: once every feed is processed and the queue drained (both goroutines
\* have ended), wg.Wait() can return: the process ends by main returning,
\* never parked for ever in Wait and never by a panic.
C2_TerminatesNormally ==
    /\ mpc \notin {"deadlock", "panic"}
    /\ (mpc = "wait" /\ ppc = "done" /\ wpc = "done") => WaitReturns(wgcount)

\* C3: when the process has ended, every job accepted into dlqueue has been
\* received and download has run on it to its return, once each: none is left
\* in the channel or in a goroutine's hands.
C3_EveryJobExecuted ==
    ~Alive =>
        /\ nfinished = nsent
        /\ nrecv = nsent
        /\ dlqueue = <<>>
        /\ pend = NoJob
        /\ cur = NoJob

\* C4: an item processItem takes to its decision produces a job if and only
\* if the decision is download (the file does not exist, or overwrite is
\* set); the job is that item's, and leaves the feed goroutine only by being
\* appended to dlqueue, once.
C4_JobIffDownload ==
    [][ /\ StatStep =>
            /\ (ppc' = "send") = (stat'.err = "ENOENT" \/ overwrite')
            /\ (ppc' # "send") = (ppc' = "item" /\ pend' = NoJob)
            /\ ppc' = "send" =>
                  pend' = Download(EnclosureURL(iidx'), StatFile, nsent + 1)
            /\ nsent' = nsent /\ dlqueue' = dlqueue
        /\ (ppc = "send" /\ pend' # pend) =>
            /\ dlqueue' = Append(dlqueue, pend)
            /\ nsent' = nsent + 1
            /\ pend' = NoJob
        /\ nsent' # nsent => ppc = "send"
      ]_vars

\* C4 witness: one item was skipped with its file present and overwrite
\* unset, after another item's job had been sent.
C4_Witness ==
    /\ ppc = "item"
    /\ iidx >= 2
    /\ stat.err = "nil"
    /\ ~overwrite
    /\ nsent >= 1

\* the age limit of pol.days days, and pol.st's age beyond it, in clock ticks
PolicyExcess == pol.st.age - pol.days * HoursPerDay * 3600 * TicksPerSecond

C6_StatErrorDownloads ==
    [][ (StatStep /\ fs[StatFile] = StatFails) => ppc' = "send" ]_vars

\* C6 amended: when os.Stat fails with an error other than "does not exist",
\* processItem skips the item: no job is made or sent for it.
C6_StatErrorSkips ==
    [][ (StatStep /\ fs[StatFile] = StatFails) =>
            /\ stat' = StatFails
            /\ ~overwrite'
            /\ ppc' = "item"
            /\ pend' = NoJob
            /\ nsent' = nsent
            /\ dlqueue' = dlqueue
      ]_vars

\* C6 witness: the item just processed met such an error and the feed
\* goroutine is at the next item with nothing to send.
C6_Witness ==
    /\ ppc = "item"
    /\ iidx >= 2
    /\ stat = StatFails
    /\ pend = NoJob

\* C7: jobs are started in the order they were sent, across all feeds, one at
\* a time: the job download runs on is the nrecv-th sent, the buffered jobs
\* are the next ones in sending order, and no job is received before download
\* has returned from the one before.
C7_StartedInSendOrder ==
    /\ \A i \in 1..Len(dlqueue) : dlqueue[i].id = nrecv + i
    /\ nrecv + Len(dlqueue) = nsent
    /\ cur # NoJob => cur.id = nrecv
    /\ (cur # NoJob) = (wpc = "download")
    /\ nfinished = IF cur # NoJob THEN nrecv - 1 ELSE nrecv

\* C7 witness: download runs on a job of the first feed while jobs are
\* buffered behind it and the feed goroutine is in the second feed.
C7_Witness ==
    /\ fidx = 2
    /\ nrecv >= 2
    /\ cur # NoJob
    /\ Len(dlqueue) >= 2

\* C8: dlqueue never holds more than queueSize jobs; a send that finds
\* queueSize jobs buffered keeps its job and cannot complete until one has
\* been received; no job sent is lost.
C8_BoundedBlockingQueue ==
    /\ Len(dlqueue) <= queueSize
    /\ nsent = nrecv + Len(dlqueue)
    /\ (Alive /\ ppc = "send") =>
          /\ pend # NoJob
          /\ pend.id = nsent + 1
          /\ (ENABLED Enqueue) = (Len(dlqueue) < queueSize)
    /\ waited <= nsent + 1
    /\ (waited = nsent + 1 /\ Len(dlqueue) = queueSize) => ppc = "send"

\* C8 witness: a send found the buffer full, and after a receive its job was
\* accepted.
C8_Witness ==
    /\ waited > queueSize
    /\ nsent >= waited
    /\ dlqueue # <<>>
    /\ dlqueue[Len(dlqueue)].id >= waited

\* C9 as stated: the feed goroutine's decisions do not depend on the download
\* goroutine: an item is sent if and only if the files found at the start of
\* the run call for it, whatever download has created since.
C9_DecisionFromInitialFiles ==
    [][ StatStep =>
          (ppc' = "send") = Enqueues(fs0[StatFile], Overwrite(fs0[StatFile], maxdays))
      ]_vars

\* C9 amended: the two goroutines share the destination files as well as the
\* queue: with -r 0, an item whose file did not exist at the start of the run
\* is sent if and only if download has not yet created that file.
C9_DecisionFromCurrentFiles ==
    [][ (StatStep /\ maxdays = 0 /\ fs0[StatFile] = NotExist) =>
          (ppc' = "send") = (StatFile \notin created)
      ]_vars

\* C9 witness: an item was skipped because download had created its file for
\* an earlier item of the same destination.
C9_Witness ==
    /\ ppc = "item"
    /\ iidx >= 2
    /\ maxdays = 0
    /\ URLParses(EnclosureURL(iidx))
    /\ fs0[DestFile(EnclosureURL(iidx))] = NotExist
    /\ DestFile(EnclosureURL(iidx)) \in created
    /\ stat = Exists(0)
    /\ pend = NoJob

\* C10: one time.Sleep follows every return of download, failed or not, and
\* precedes the next receive: sleeps and finished jobs are equal in number
\* whenever the download goroutine is not between the two.
C10_OneDelayPerJob ==
    /\ wpc = "sleep" => nsleeps + 1 = nfinished
    /\ wpc # "sleep" => nsleeps = nfinished
    /\ wpc = "download" => nrecv = nsleeps + 1
    /\ nsleeps <= nfinished

\* C10 witness: a second job is started after a job that failed before it
\* could create its file, and after the delay that followed it.
C10_Witness ==
    /\ wpc = "download"
    /\ nfinished >= 1
    /\ created = {}
    /\ nsleeps = nfinished

\* C11: whatever step of download fails, download returns once for the job:
\* the job is dropped (not retried, not put back), the channel and the feed
\* goroutine are left as they were, and downloader goes on to the delay and
\* the next receive.
C11_FailureEndsOnlyTheJob ==
    [][ nfinished' # nfinished =>
          /\ wpc = "download"
          /\ nfinished' = nfinished + 1
          /\ cur' = NoJob
          /\ wpc' = "sleep"
          /\ dlqueue' = dlqueue
          /\ nrecv' = nrecv
          /\ nsent' = nsent
          /\ pend' = pend
          /\ ppc' = ppc
          /\ mpc' = mpc
      ]_vars

\* C11 witness: two jobs have failed before creating their files, and
\* downloader is back at the receive with further jobs buffered.
C11_Witness ==
    /\ wpc = "recv"
    /\ nfinished >= 2
    /\ created = {}
    /\ dlqueue # <<>>
    /\ Alive

\* C12: a feed whose fetch or parse fails is left with nothing sent, the
\* channel still open and the process running; the range loop then takes the
\* next feed URL if there is one, and only after the last closes the channel.
C12_FeedFailureIsLocal ==
    [][ /\ (ppc = "feed" /\ ppc' \notin {"feed", "item"}) =>
            /\ ppc' = "loop"
            /\ fidx' = fidx
            /\ closed' = closed
            /\ ~closed
            /\ nsent' = nsent
            /\ dlqueue' = dlqueue
            /\ pend' = NoJob
            /\ mpc' = mpc
        /\ (ppc = "loop" /\ ppc' # "loop") =>
            IF fidx < Len(args)
            THEN ppc' = "feed" /\ fidx' = fidx + 1 /\ ~closed'
            ELSE closed'
      ]_vars

\* C12 witness: the second feed is sending the first job of the run for its
\* second item; the files being untouched, the first feed would have sent one
\* for its own second item had it been parsed: it failed.
C12_Witness ==
    /\ fidx = 2
    /\ ppc = "send"
    /\ iidx = 2
    /\ nsent = 0
    /\ created = {}

\* the field selector of an instruction: what stands before its first space,
\* less the spaces around it
Selector(instruction) == TrimSpace(SplitN(instruction)[1])

\* C13: once podtracCompile has run on an instruction whose selector is not
\* one of the nine field names, the process has ended at startup: it has
\* exited with podtracCompile's error (or, at the least, been ended by a
\* panic inside podtracCompile) and goes on to no feed.
C13_UnknownFieldIsFatal ==
    (/\ pod.pc \in {"compiled", "exit", "panic", "item"}
     /\ pod.instruction # <<>>
     /\ \A n \in FieldNames : Selector(pod.instruction) # <<n>>)
        => (pod.pc \in {"exit", "panic"} /\ "item" \notin DOMAIN pod)

\* the first non-empty element of groups, <<>> when there is none
RECURSIVE FirstNonEmpty(_)
FirstNonEmpty(groups) ==
    IF groups = <<>> THEN <<>>
    ELSE IF Head(groups) # <<>> THEN Head(groups)
    ELSE FirstNonEmpty(Tail(groups))

\* C14: after depodtracify on an item that has a guid, the result is the first non-empty
\* group of the first match of the pattern in the selected field followed by
\* the extension, and it is an error with the episode skipped exactly when
\* nothing matches or no group captured a non-empty string.
C14_FirstNonEmptyGroup ==
    (/\ pod.pc \in {"item", "panic"}
     /\ "item" \in DOMAIN pod
     /\ pod.item.guid # NoGuid) =>
        LET x == Lookup(Data(pod.item), pod.rule.podtracField)
            ep == FindStringSubmatch(pod.rule.podtracRE, x, 1)
            stem == IF ep = <<>> THEN <<>> ELSE FirstNonEmpty(Tail(ep))
        IN  IF stem = <<>>
            THEN pod.pc = "item" /\ pod.result.kind = "error" /\ pod.skipped
            ELSE /\ pod.pc = "item"
                 /\ pod.result = [kind |-> "ok", destfile |-> stem \o Ext]
                 /\ ~pod.skipped

\* the sum of the values of parts weighted from the last backwards
RECURSIVE WeightedSum(_)
WeightedSum(parts) ==
    IF parts = <<>> THEN 0
    ELSE parts[1].val * babylon[Len(parts)] + WeightedSum(Tail(parts))

\* C15: on a text of 1 to 4 components parseDuration returns the weighted
\* sum of the components in seconds when all are integers, and an error when
\* one is not; "1:02:03" gives 3723 seconds and "02:03" gives 123.
C15_WeightedSum ==
    /\ (dur.done /\ "parts" \in DOMAIN dur /\ Len(dur.parts) <= Len(babylon)) =>
          IF \A k \in 1..Len(dur.parts) : dur.parts[k].int
          THEN dur.d = [kind |-> "ok", secs |-> WeightedSum(dur.parts)]
          ELSE dur.d.kind = "error"
    /\ (dur.done /\ "ds" \in DOMAIN dur) =>
          /\ dur.ds = <<"1", ":", "0", "2", ":", "0", "3">> =>
                dur.d = [kind |-> "ok", secs |-> 3723]
          /\ dur.ds = <<"0", "2", ":", "0", "3">> =>
                dur.d = [kind |-> "ok", secs |-> 123]

\* C15 witness: "1:02:03" has been parsed into 3723 seconds.
C15_Witness ==
    /\ dur.done
    /\ "ds" \in DOMAIN dur
    /\ dur.ds = <<"1", ":", "0", "2", ":", "0", "3">>
    /\ dur.d.kind = "ok"
    /\ dur.d.secs = 3723

\* C16: no item ends the feed goroutine: while a channel's items are being
\* processed the process is never ended by a run-time error.
C16_ItemNeverAborts ==
    ppc \in {"item", "send"} => mpc # "crash"

\* C17: downloader has returned only with the channel closed and empty, no job
\* in its hands, every job sent finished, and the feed goroutine past its
\* last send.
C17_ReturnsOnlyClosedAndEmpty ==
    wpc \in {"defer", "done"} =>
        /\ closed
        /\ dlqueue = <<>>
        /\ cur = NoJob
        /\ pend = NoJob
        /\ ppc \in {"defer", "done"}
        /\ nrecv = nsent
        /\ nfinished = nsent
        /\ nsleeps = nfinished

\* C17 witness: downloader has returned after executing jobs.
C17_Witness ==
    /\ wpc = "done"
    /\ nfinished >= 2
    /\ closed

\* C18: the channel is closed by the feed goroutine, at the end of its range
\* over the feed URLs, with every feed begun and done with; once closed it
\* stays closed, is not closed again, and nothing is sent on it.
C18_ClosedOnceAfterAllFeeds ==
    [][ /\ (~closed /\ closed') =>
            /\ ppc = "loop"
            /\ fidx = Len(args)
            /\ pend = NoJob
            /\ ppc' \in {"defer", "done"}
        /\ closed =>
            /\ closed'
            /\ nsent' = nsent
            /\ fidx' = fidx
            /\ ppc' \in {"defer", "done"}
        /\ ppc' \in {"defer", "done"} => closed'
      ]_vars

\* C18 witness: the channel is closed after two feeds, with jobs sent before.
C18_Witness ==
    /\ closed
    /\ fidx = 2
    /\ nsent >= 2
    /\ dlqueue # <<>>

\* C19: the WaitGroup counter never goes below zero, and the two goroutines
\* make two Done calls in all, one each: the feed goroutine returns with one
\* deferred Done, and when both have returned the counter is zero.
C19_AddDoneBalance ==
    /\ mpc # "panic"
    /\ wgcount >= 0
    /\ ppc = "defer" => ndefers = 1
    /\ (ppc = "done" /\ wpc = "done") => wgcount = 0

\* C20: parseDuration returns a duration or an error on every text, so the
\* feed that carries it is decoded or rejected and the process goes on.
C20_ParseDurationTotal ==
    (dur.done /\ "d" \in DOMAIN dur) =>
        /\ dur.d.kind \in {"ok", "error"}
        /\ dur.feed \in {"ok", "parse"}

====
